---- MODULE Spec2Model ----
(***************************************************************************)
(* A model of md (mojoaar/md-app), the markdown note and template          *)
(* generator of src/main.go (cobra revision, lines 1-430) and              *)
(* src/config.go.                                                          *)
(*                                                                         *)
(* A Go string is modelled as a sequence of characters, each character a   *)
(* one-character TLA+ string.  The character "é" stands for a rune whose   *)
(* UTF-8 encoding is two bytes, so that len() (bytes) and the number of    *)
(* runes differ as they do in Go.                                          *)
(***************************************************************************)
EXTENDS Integers, Sequences, FiniteSets, TLC

VARIABLES arg, res, fs, notesDir, last

vars == <<arg, res, fs, notesDir, last>>

(***************************************************************************)
(* Bounds of the model.                                                    *)
(***************************************************************************)
\* longest short input string drawn for the name and title functions
MaxLen == 3

\* most pieces a template drawn for generateContent is put together from
MaxPieces == 3

\* most tags drawn for generateContent
MaxTags == 2

(***************************************************************************)
(* Characters and the string functions of the Go library that main.go      *)
(* uses.                                                                   *)
(***************************************************************************)
LowerChars ==
  <<"a","b","c","d","e","f","g","h","i","j","k","l","m",
    "n","o","p","q","r","s","t","u","v","w","x","y","z">>

UpperChars ==
  <<"A","B","C","D","E","F","G","H","I","J","K","L","M",
    "N","O","P","Q","R","S","T","U","V","W","X","Y","Z">>

DigitChars == <<"0","1","2","3","4","5","6","7","8","9">>

Range(s) == {s[i] : i \in DOMAIN s}

\* runes whose UTF-8 encoding takes two bytes
TwoByteChars == {"é"}

\* len(s): the length of a Go string in bytes
len(s) == Len(s) + Cardinality({i \in DOMAIN s : s[i] \in TwoByteChars})

\* s[:n] for a string of one-byte characters
Prefix(s, n) == SubSeq(s, 1, n)

HasPrefix(s, p) == Len(s) >= Len(p) /\ SubSeq(s, 1, Len(p)) = p

HasSuffix(s, p) ==
  Len(s) >= Len(p) /\ SubSeq(s, Len(s) - Len(p) + 1, Len(s)) = p

\* the places of s where old occurs
Occurrences(s, old) ==
  {i \in 1..(Len(s) - Len(old) + 1) : SubSeq(s, i, i + Len(old) - 1) = old}

\* strings.ReplaceAll(s, old, new) for a non-empty old: the non-overlapping
\* occurrences of old, found from the left, are replaced; the replacement is
\* not scanned again.  (Occurrences of a one-character old cannot overlap,
\* so a one-character replacement is made in place.)
RECURSIVE ReplaceAll(_, _, _)
ReplaceAll(s, old, new) ==
  IF Len(old) = 1 /\ Len(new) = 1
  THEN [i \in DOMAIN s |-> IF s[i] = old[1] THEN new[1] ELSE s[i]]
  ELSE LET occ == Occurrences(s, old)
       IN  IF occ = {} THEN s
           ELSE LET first == CHOOSE i \in occ : \A j \in occ : i <= j
                IN  SubSeq(s, 1, first - 1) \o new \o
                    ReplaceAll(SubSeq(s, first + Len(old), Len(s)), old, new)

\* strings.ToLower on one character
ToLowerChar(c) ==
  IF \E i \in DOMAIN UpperChars : UpperChars[i] = c
  THEN LowerChars[CHOOSE i \in DOMAIN UpperChars : UpperChars[i] = c]
  ELSE c

ToLower(s) == [i \in DOMAIN s |-> ToLowerChar(s[i])]

\* the white space strings.TrimSpace removes
SpaceChars == {" ", "\t", "\n", "\r"}

TrimSpace(s) ==
  LET keep == {i \in DOMAIN s : s[i] \notin SpaceChars}
  IN  IF keep = {} THEN <<>>
      ELSE SubSeq(s, CHOOSE i \in keep : \A j \in keep : i <= j,
                     CHOOSE i \in keep : \A j \in keep : j <= i)

(***************************************************************************)
(* Errors.                                                                 *)
(***************************************************************************)
Nil == [type |-> "nil"]

ValidationError(field, msg) ==
  [type |-> "ValidationError", Field |-> field, Msg |-> msg]

FileError(op, path) == [type |-> "FileError", Op |-> op, Path |-> path]

(***************************************************************************)
(* sanitizeFileName, validateFileName, validateTitle.                      *)
(***************************************************************************)
\* the class [a-zA-Z0-9_-] of the regular expression
SafeChars ==
  Range(LowerChars) \cup Range(UpperChars) \cup Range(DigitChars) \cup {"_", "-"}

SanitizeMaxLen == 255

\* sanitizeFileName with the characters outside the class replaced by a space
\* instead of removed
sanitizeFileNameBlanked(name) ==
  LET spaced   == ReplaceAll(name, <<" ">>, <<"_">>)
      blanked  == [i \in DOMAIN spaced |->
                     IF spaced[i] \in SafeChars THEN spaced[i] ELSE " "]
      lowered  == ToLower(blanked)
  IN  IF len(lowered) > SanitizeMaxLen
      THEN Prefix(lowered, SanitizeMaxLen)
      ELSE lowered

\* sanitizeFileName without the conversion to lower case
sanitizeFileNameNoLower(name) ==
  LET spaced   == ReplaceAll(name, <<" ">>, <<"_">>)
      stripped == SelectSeq(spaced, LAMBDA c : c \in SafeChars)
  IN  IF len(stripped) > SanitizeMaxLen
      THEN Prefix(stripped, SanitizeMaxLen)
      ELSE stripped

\* sanitizeFileName without the removal of the characters outside the class
sanitizeFileNameNoStrip(name) ==
  LET spaced   == ReplaceAll(name, <<" ">>, <<"_">>)
      lowered  == ToLower(spaced)
  IN  IF len(lowered) > SanitizeMaxLen
      THEN Prefix(lowered, SanitizeMaxLen)
      ELSE lowered

sanitizeFileName(name) ==
  LET spaced   == ReplaceAll(name, <<" ">>, <<"_">>)
      stripped == SelectSeq(spaced, LAMBDA c : c \in SafeChars)
      lowered  == ToLower(stripped)
  IN  IF len(lowered) > SanitizeMaxLen
      THEN Prefix(lowered, SanitizeMaxLen)
      ELSE lowered

MaxFileNameLen == 255

InvalidNameChars == {"/", "\\", ":", "*", "?", "\"", "<", ">", "|"}

\* validateFileName with the length test off by one
validateFileNameOffByOne(name) ==
  IF name = <<>> THEN ValidationError("file name", "cannot be empty")
  ELSE IF len(name) >= MaxFileNameLen
       THEN ValidationError("file name", "too long (max 255 characters)")
  ELSE IF \E i \in DOMAIN name : name[i] \in InvalidNameChars
       THEN ValidationError("file name", "contains invalid characters")
  ELSE Nil

validateFileName(name) ==
  IF name = <<>> THEN ValidationError("file name", "cannot be empty")
  ELSE IF len(name) > MaxFileNameLen
       THEN ValidationError("file name", "too long (max 255 characters)")
  ELSE IF \E i \in DOMAIN name : name[i] \in InvalidNameChars
       THEN ValidationError("file name", "contains invalid characters")
  ELSE Nil

MaxTitleLen == 100

\* validateTitle with the white-space test made before the length test
validateTitleSpaceFirst(title) ==
  IF title = <<>> THEN ValidationError("title", "cannot be empty")
  ELSE IF TrimSpace(title) = <<>>
       THEN ValidationError("title", "cannot be only whitespace")
  ELSE IF len(title) > MaxTitleLen
       THEN ValidationError("title", "too long (max 100 characters)")
  ELSE Nil

validateTitle(title) ==
  IF title = <<>> THEN ValidationError("title", "cannot be empty")
  ELSE IF len(title) > MaxTitleLen
       THEN ValidationError("title", "too long (max 100 characters)")
  ELSE IF TrimSpace(title) = <<>>
       THEN ValidationError("title", "cannot be only whitespace")
  ELSE Nil

(***************************************************************************)
(* The filesystem before any command has run, and the record of a command. *)
(***************************************************************************)
\* a directory without entries
EmptyDir == [n \in {} |-> 0]

\* fs is the part of the filesystem the program reads and writes:
\*   cfgCwd, cfgHome  .md_config.yaml is in the current directory, the home
\*   readOnly         the current directory and what is below it cannot
\*                    be written: every create and write fails
\*   tdir             what is at the templates directory's path:
\*                    "absent", "dir", or "file" (something not a directory)
\*   tfiles           the entries of the templates directory, by file name
\*   ndir             what is at the notes directory's path, if one is set
\*   nfiles           the entries of the directory notes are written to
EmptyFS ==
  [cfgCwd |-> FALSE, cfgHome |-> FALSE, readOnly |-> FALSE,
   tdir |-> "absent", tfiles |-> EmptyDir, ndir |-> "absent", nfiles |-> EmptyDir]

NoCall == [cmd |-> "none"]

(***************************************************************************)
(* SpecNames: the name and title functions applied to strings.             *)
(***************************************************************************)
NameAlphabet == {"a", "B", "7", " ", "\t", "_", "-", "!", ".", "/", "?", "é"}

\* the strings over NameAlphabet of length at most MaxLen
ShortStrings == UNION {[1..n -> NameAlphabet] : n \in 0..MaxLen}

Fill(c, n) == [i \in 1..n |-> c]

\* strings at and just beyond the length limits, of one repeated character
\* followed by at most one more
LongStrings ==
  {Fill(c, n) \o t :
     c \in {"a", "B", " ", "é", "/", "!"},
     n \in {MaxTitleLen - 1, MaxTitleLen, MaxTitleLen + 1,
            MaxFileNameLen - 1, MaxFileNameLen, MaxFileNameLen + 1},
     t \in {<<>>, <<"a">>, <<"?">>, <<" ">>}}

NameInputs == ShortStrings \cup LongStrings

InitNames ==
  /\ arg \in NameInputs
  /\ res = [op |-> "none"]
  /\ fs = EmptyFS
  /\ notesDir = <<>>
  /\ last = NoCall

CallSanitize ==
  /\ res.op = "none"
  /\ res' = [op |-> "sanitizeFileName", out |-> sanitizeFileName(arg)]
  /\ UNCHANGED <<arg, fs, notesDir, last>>

CallSanitizeAgain ==
  /\ res.op = "sanitizeFileName"
  /\ res' = [op |-> "sanitizeFileName twice", once |-> res.out,
             out |-> sanitizeFileName(res.out)]
  /\ UNCHANGED <<arg, fs, notesDir, last>>

CallValidateFileName ==
  /\ res.op = "none"
  /\ res' = [op |-> "validateFileName", err |-> validateFileName(arg)]
  /\ UNCHANGED <<arg, fs, notesDir, last>>

CallValidateTitle ==
  /\ res.op = "none"
  /\ res' = [op |-> "validateTitle", err |-> validateTitle(arg)]
  /\ UNCHANGED <<arg, fs, notesDir, last>>

NextNames ==
  \/ CallSanitize
  \/ CallSanitizeAgain
  \/ CallValidateFileName
  \/ CallValidateTitle

SpecNames == InitNames /\ [][NextNames]_vars

(***************************************************************************)
(* Properties of the name and title functions (under SpecNames).           *)
(***************************************************************************)
IsError(err, msg) == err.type = "ValidationError" /\ err.Msg = msg

OnlySpace(s) == \A i \in DOMAIN s : s[i] \in SpaceChars

\* C1: sanitizeFileName is idempotent: sanitizing a sanitized string gives
\* the same string again.
C1_SanitizeIdempotent ==
  res.op = "sanitizeFileName twice" => res.out = res.once

\* a string that sanitizing changed (and cut to the length limit) has been
\* sanitized twice
C1_Witness ==
  /\ res.op = "sanitizeFileName twice"
  /\ Len(arg) > SanitizeMaxLen
  /\ "B" \in Range(arg)
  /\ Len(res.once) = SanitizeMaxLen
  /\ res.once # arg

\* C2: the result of sanitizeFileName has only characters of [a-z0-9_-], is
\* at most 255 long, and is the input with spaces made underscores, the
\* characters outside [A-Za-z0-9_-] removed, lower-cased and cut to 255.
C2_SanitizeResult ==
  res.op = "sanitizeFileName" =>
    LET kept   == SelectSeq(arg, LAMBDA c : c \in SafeChars \cup {" "})
        mapped == [i \in DOMAIN kept |->
                     IF kept[i] = " " THEN "_" ELSE ToLowerChar(kept[i])]
        cut    == IF Len(mapped) > 255 THEN 255 ELSE Len(mapped)
    IN  /\ Range(res.out) \subseteq
              Range(LowerChars) \cup Range(DigitChars) \cup {"_", "-"}
        /\ Len(res.out) <= 255
        /\ res.out = SubSeq(mapped, 1, cut)

\* a name that validation accepts has been sanitized to something else
C2_Witness ==
  /\ res.op = "sanitizeFileName"
  /\ arg = <<"B", " ", "!">>
  /\ validateFileName(arg) = Nil
  /\ res.out = <<"b", "_">>

\* C3: validateFileName fails with the empty-name error exactly for the
\* empty name, with the too-long error for a name longer than 255 (bytes),
\* with the invalid-characters error for a name (of at most 255) that has
\* one of / \ : * ? " < > |, accepts every other name, and changes nothing.
C3_ValidateFileName ==
  res.op = "validateFileName" =>
    LET bad == \E i \in DOMAIN arg :
                 arg[i] \in {"/", "\\", ":", "*", "?", "\"", "<", ">", "|"}
    IN  /\ IsError(res.err, "cannot be empty") <=> arg = <<>>
        /\ len(arg) > 255 =>
              IsError(res.err, "too long (max 255 characters)")
        /\ bad /\ len(arg) <= 255 =>
              IsError(res.err, "contains invalid characters")
        /\ arg # <<>> /\ len(arg) <= 255 /\ ~bad => res.err = Nil
        /\ res.err # Nil => res.err.Field = "file name"
        /\ fs = EmptyFS /\ last = NoCall

\* a name of exactly 255 is accepted
C3_Witness ==
  /\ res.op = "validateFileName"
  /\ len(arg) = 255
  /\ res.err = Nil

\* C4 as stated: validateTitle fails with the empty or white-space error
\* for every title that is empty or only white space, whatever its length,
\* with the too-long error for any other title longer than 100, and accepts
\* the rest.
C4_Original ==
  res.op = "validateTitle" =>
    /\ arg = <<>> => IsError(res.err, "cannot be empty")
    /\ arg # <<>> /\ OnlySpace(arg) =>
          IsError(res.err, "cannot be only whitespace")
    /\ ~OnlySpace(arg) /\ len(arg) > 100 =>
          IsError(res.err, "too long (max 100 characters)")
    /\ ~OnlySpace(arg) /\ len(arg) <= 100 => res.err = Nil

\* C4 amended: validateTitle fails with the empty error for the empty
\* title, with the too-long error for every title longer than 100 (bytes),
\* white space or not, with the white-space error for a title of at most
\* 100 that is only white space, and accepts the rest.
C4_ValidateTitle ==
  res.op = "validateTitle" =>
    /\ arg = <<>> => IsError(res.err, "cannot be empty")
    /\ len(arg) > 100 => IsError(res.err, "too long (max 100 characters)")
    /\ arg # <<>> /\ len(arg) <= 100 /\ OnlySpace(arg) =>
          IsError(res.err, "cannot be only whitespace")
    /\ ~OnlySpace(arg) /\ len(arg) <= 100 => res.err = Nil
    /\ res.err # Nil => res.err.Field = "title"

\* a title of 101 spaces has been refused as too long
C4_Witness ==
  /\ res.op = "validateTitle"
  /\ arg = Fill(" ", 101)
  /\ IsError(res.err, "too long (max 100 characters)")

(***************************************************************************)
(* generateContent.                                                        *)
(***************************************************************************)
TitleToken == <<"{","{","T","I","T","L","E","}","}">>

DateToken == <<"{","{","D","A","T","E","}","}">>

TimeToken == <<"{","{","T","I","M","E","}","}">>

TagsToken == <<"{","{","T","A","G","S","}","}">>

\* strings.Join(parts, sep)
RECURSIVE Join(_, _)
Join(parts, sep) ==
  IF parts = <<>> THEN <<>>
  ELSE IF Len(parts) = 1 THEN parts[1]
  ELSE parts[1] \o sep \o Join(Tail(parts), sep)

Pad2(n) == <<DigitChars[(n \div 10) + 1], DigitChars[(n % 10) + 1]>>

Pad4(n) == Pad2(n \div 100) \o Pad2(n % 100)

\* now.Format("2006-01-02")
FormatDate(now) == Pad4(now.year) \o <<"-">> \o Pad2(now.month) \o <<"-">> \o Pad2(now.day)

\* now.Format("15:04:05")
FormatTime(now) == Pad2(now.hour) \o <<":">> \o Pad2(now.minute) \o <<":">> \o Pad2(now.second)

\* generateContent as in the revision before tags: {{TAGS}} is not replaced
generateContentNoTags(template, title, tags, now) ==
  LET c1 == ReplaceAll(template.Content, TitleToken, title)
      c2 == ReplaceAll(c1, DateToken, FormatDate(now))
  IN  ReplaceAll(c2, TimeToken, FormatTime(now))

\* generateContent; now is the value time.Now() returns
generateContent(template, title, tags, now) ==
  LET c1 == ReplaceAll(template.Content, TitleToken, title)
      c2 == ReplaceAll(c1, DateToken, FormatDate(now))
      c3 == ReplaceAll(c2, TimeToken, FormatTime(now))
      tagsString == Join(tags, <<",", " ">>)
  IN  ReplaceAll(c3, TagsToken, tagsString)

(***************************************************************************)
(* The default template: the text of the file and the content that         *)
(* yaml.Unmarshal reads from it.                                           *)
(***************************************************************************)
\* the lines of a text, each ended by a line feed
RECURSIVE Text(_)
Text(lines) ==
  IF lines = <<>> THEN <<>> ELSE lines[1] \o <<"\n">> \o Text(Tail(lines))

defaultTemplateContent ==
  Text(<< <<"c","o","n","t","e","n","t",":"," ","|">>,
          <<" "," ","#"," ","{","{","T","I","T","L","E","}","}">>,
          <<>>,
          <<" "," ","D","a","t","e",":"," ","{","{","D","A","T","E","}","}">>,
          <<" "," ","T","i","m","e",":"," ","{","{","T","I","M","E","}","}">>,
          <<" "," ","T","a","g","s",":"," ","{","{","T","A","G","S","}","}">>,
          <<>>,
          <<" "," ","#","#"," ","I","n","t","r","o","d","u","c","t","i","o","n">>,
          <<>>,
          <<" "," ","#","#"," ","M","a","i","n"," ","C","o","n","t","e","n","t">>,
          <<>>,
          <<" "," ","#","#"," ","C","o","n","c","l","u","s","i","o","n">>,
          <<>>,
          <<"t","a","g","s",":">> >>)

\* strings.Split(s, sep) for a one-character sep
RECURSIVE Split(_, _)
Split(s, sep) ==
  LET at == {i \in DOMAIN s : s[i] = sep}
  IN  IF at = {} THEN <<s>>
      ELSE LET first == CHOOSE i \in at : \A j \in at : i <= j
           IN  <<SubSeq(s, 1, first - 1)>> \o Split(SubSeq(s, first + 1, Len(s)), sep)

\* yaml.Unmarshal(data, &template) on the documents the model puts on disk:
\* the empty document, and a document that opens with the block scalar
\* "content: |" (indented by two, clipped to one final line feed), followed
\* by nothing or by an empty "tags:".  Anything else is refused, as a
\* document that is not a mapping is.
Unmarshal(data) ==
  LET lines == Split(data, "\n")
      isBody(l) == l = <<>> \/ HasPrefix(l, <<" ", " ">>)
      \* the lines of the block scalar: those after the first, up to the
      \* first that is neither empty nor indented
      stop  == {i \in 2..Len(lines) : ~isBody(lines[i])}
      end   == IF stop = {} THEN Len(lines)
               ELSE (CHOOSE i \in stop : \A j \in stop : i <= j) - 1
      full  == {i \in 2..end : lines[i] # <<>>}
      lastFull == IF full = {} THEN 1
                  ELSE CHOOSE i \in full : \A j \in full : j <= i
      body  == [i \in 1..(lastFull - 1) |->
                  IF lines[i + 1] = <<>> THEN <<>>
                  ELSE SubSeq(lines[i + 1], 3, Len(lines[i + 1]))]
      rest  == SubSeq(lines, end + 1, Len(lines))
  IN  IF data = <<>> THEN [ok |-> TRUE, template |-> [Content |-> <<>>, Tags |-> <<>>]]
      ELSE IF lines[1] = <<"c","o","n","t","e","n","t",":"," ","|">>
              /\ \A i \in DOMAIN rest :
                    rest[i] \in {<<>>, <<"t","a","g","s",":">>}
           THEN [ok |-> TRUE, template |-> [Content |-> Text(body), Tags |-> <<>>]]
           ELSE [ok |-> FALSE]

\* the template that loadTemplate reads from default.yaml
DefaultTemplate == Unmarshal(defaultTemplateContent).template

(***************************************************************************)
(* SpecRender: generateContent applied to templates, titles and tags.      *)
(***************************************************************************)
\* what templates are put together from: the tokens, the two halves of a
\* token, and other text
Pieces ==
  {TitleToken, DateToken, TimeToken, TagsToken,
   <<"{","{","T","I">>, <<"T","L","E","}","}">>, <<"x">>}

RECURSIVE Concat(_)
Concat(parts) == IF parts = <<>> THEN <<>> ELSE parts[1] \o Concat(Tail(parts))

RenderTemplates ==
  {[Content |-> Concat(ps), Tags |-> <<>>] :
     ps \in UNION {[1..n -> Pieces] : n \in 0..MaxPieces}}
  \cup {DefaultTemplate}

RenderTitles == {<<"M","y"," ","N","o","t","e">>, DateToken, TitleToken}

RenderTags == {<<"a">>, <<"b">>, TitleToken}

RenderTagLists == UNION {[1..n -> RenderTags] : n \in 0..MaxTags}

Clocks ==
  {[year |-> 2024, month |-> 10, day |-> 8, hour |-> 9, minute |-> 5, second |-> 0],
   [year |-> 2026, month |-> 11, day |-> 1, hour |-> 23, minute |-> 59, second |-> 59]}

InitRender ==
  /\ arg \in RenderTemplates
  /\ res = [op |-> "none"]
  /\ fs = EmptyFS
  /\ notesDir = <<>>
  /\ last = NoCall

CallGenerateContent ==
  /\ res.op = "none"
  /\ \E title \in RenderTitles, tags \in RenderTagLists, now \in Clocks :
       res' = [op |-> "generateContent", title |-> title, tags |-> tags,
               now |-> now, out |-> generateContent(arg, title, tags, now)]
  /\ UNCHANGED <<arg, fs, notesDir, last>>

NextRender == CallGenerateContent

SpecRender == InitRender /\ [][NextRender]_vars

(***************************************************************************)
(* Properties of generateContent (under SpecRender).                       *)
(***************************************************************************)
Tokens == {TitleToken, DateToken, TimeToken, TagsToken}

Contains(s, sub) == Occurrences(s, sub) # {}

BraceFree(s) == Range(s) \cap {"{", "}"} = {}

\* s with every placeholder token, found from the left in one pass, replaced
\* by its value; what is put in is not looked at again
RECURSIVE Verbatim(_, _)
Verbatim(s, value) ==
  LET occ == UNION {Occurrences(s, t) : t \in Tokens}
  IN  IF occ = {} THEN s
      ELSE LET first == CHOOSE i \in occ : \A j \in occ : i <= j
               tok   == CHOOSE t \in Tokens : first \in Occurrences(s, t)
           IN  SubSeq(s, 1, first - 1) \o value[tok] \o
               Verbatim(SubSeq(s, first + Len(tok), Len(s)), value)

\* every brace of the template belongs to a placeholder token
WholeTokens(s) == BraceFree(Verbatim(s, [t \in Tokens |-> <<>>]))

\* C6 as stated: whatever the template, title and tags, none of the four
\* placeholder tokens occurs in the text generateContent returns.
C6_Original ==
  res.op = "generateContent" => \A t \in Tokens : ~Contains(res.out, t)

\* C6 amended: when the title and the tags have no brace, and every brace of
\* the template content belongs to one of the four tokens, none of the four
\* tokens occurs in the text generateContent returns.
C6_NoTokenLeft ==
  /\ res.op = "generateContent"
  /\ BraceFree(res.title)
  /\ \A i \in DOMAIN res.tags : BraceFree(res.tags[i])
  /\ WholeTokens(arg.Content)
  => \A t \in Tokens : ~Contains(res.out, t)

\* the default template, which has all four tokens, has been rendered with
\* title "My Note" and tags a, b
C6_Witness ==
  /\ res.op = "generateContent"
  /\ arg = DefaultTemplate
  /\ \A t \in Tokens : Contains(arg.Content, t)
  /\ res.title = <<"M","y"," ","N","o","t","e">>
  /\ res.tags = <<(<<"a">>), (<<"b">>)>>
  /\ Contains(res.out, <<"#"," ","M","y"," ","N","o","t","e","\n">>)
  /\ Contains(res.out, <<"T","a","g","s",":"," ","a",","," ","b","\n">>)
  /\ \A t \in Tokens : ~Contains(res.out, t)

\* C7: the text generateContent returns is the template content with each
\* {{TITLE}} replaced by the title as given, each {{TAGS}} by the tags joined
\* with ", ", each {{DATE}} and {{TIME}} by the formatted clock value, and
\* nothing else changed: what is put in is not rewritten.
C7_VerbatimReplacement ==
  res.op = "generateContent" =>
    res.out = Verbatim(arg.Content,
                       [t \in Tokens |->
                          IF t = TitleToken THEN res.title
                          ELSE IF t = DateToken THEN FormatDate(res.now)
                          ELSE IF t = TimeToken THEN FormatTime(res.now)
                          ELSE Join(res.tags, <<",", " ">>)])

(***************************************************************************)
(* The filesystem and the commands.  An operation takes the filesystem f   *)
(* and returns the filesystem it leaves and its error.                     *)
(***************************************************************************)
\* AppConfig.TemplatesDir: the default of LoadConfig
TemplatesDir == <<"t","e","m","p","l","a","t","e","s">>

YamlExt == <<".","y","a","m","l">>

MdExt == <<".","m","d">>

\* the elements of a relative path with the empty and "." elements dropped
\* and each ".." taken with the element before it
RECURSIVE CleanParts(_, _)
CleanParts(parts, kept) ==
  IF parts = <<>> THEN kept
  ELSE LET p == Head(parts)
       IN  IF p = <<>> \/ p = <<".">> THEN CleanParts(Tail(parts), kept)
           ELSE IF p = <<".", ".">> /\ kept # <<>> /\ kept[Len(kept)] # <<".", ".">>
                THEN CleanParts(Tail(parts), SubSeq(kept, 1, Len(kept) - 1))
           ELSE CleanParts(Tail(parts), Append(kept, p))

\* filepath.Clean(path) for a relative path with the separator "/"
Clean(path) ==
  LET parts == CleanParts(Split(path, "/"), <<>>)
  IN  IF parts = <<>> THEN <<".">> ELSE Join(parts, <<"/">>)

\* filepath.Join(dir, name) for a non-empty dir
PathJoin(dir, name) == Clean(dir \o <<"/">> \o name)

\* the path createTemplate writes and loadTemplate reads
TemplatePath(name) == PathJoin(TemplatesDir, sanitizeFileName(name) \o YamlExt)

\* the path saveMarkdownFile writes; nd is AppConfig.NotesDir
NotePath(nd, name) ==
  IF nd # <<>> THEN PathJoin(nd, sanitizeFileName(name) \o MdExt)
  ELSE sanitizeFileName(name) \o MdExt

File(data) == [dir |-> FALSE, data |-> data]

SubDir == [dir |-> TRUE]

\* the entries of a directory after os.WriteFile has written name
WithFile(entries, name, data) ==
  [n \in DOMAIN entries \cup {name} |-> IF n = name THEN File(data) ELSE entries[n]]

\* os.WriteFile can write name into a directory with these entries
CanWrite(f, entries, name) ==
  ~f.readOnly /\ ~(name \in DOMAIN entries /\ entries[name].dir)

ConfigError == [type |-> "ConfigError"]

\* LoadConfig: the configuration file of the current directory, else that of
\* the home directory, else a default one is written to the current
\* directory.  The file read names the default templates directory.
LoadConfig(f) ==
  IF f.cfgCwd \/ f.cfgHome THEN [fs |-> f, err |-> Nil]
  ELSE IF ~f.readOnly THEN [fs |-> [f EXCEPT !.cfgCwd = TRUE], err |-> Nil]
  ELSE [fs |-> f, err |-> ConfigError]

DefaultYaml == <<"d","e","f","a","u","l","t">> \o YamlExt

\* ensureTemplatesDirectory that seeds default.yaml whenever it is missing
ensureTemplatesDirectoryReseed(f) ==
  IF f.tdir = "absent"
  THEN IF f.readOnly
       THEN [fs |-> f, err |-> FileError("create", TemplatesDir)]
       ELSE [fs |-> [f EXCEPT !.tdir = "dir",
                              !.tfiles = WithFile(EmptyDir, DefaultYaml,
                                                  defaultTemplateContent)],
             err |-> Nil]
  ELSE IF f.tdir = "dir" /\ DefaultYaml \notin DOMAIN f.tfiles /\ ~f.readOnly
  THEN [fs |-> [f EXCEPT !.tfiles = WithFile(f.tfiles, DefaultYaml,
                                             defaultTemplateContent)],
        err |-> Nil]
  ELSE [fs |-> f, err |-> Nil]

ensureTemplatesDirectory(f) ==
  IF f.tdir = "absent"
  THEN IF f.readOnly
       THEN [fs |-> f, err |-> FileError("create", TemplatesDir)]
       ELSE [fs |-> [f EXCEPT !.tdir = "dir",
                              !.tfiles = WithFile(EmptyDir, DefaultYaml,
                                                  defaultTemplateContent)],
             err |-> Nil]
  ELSE [fs |-> f, err |-> Nil]

\* nd is AppConfig.NotesDir
ensureNotesDirectory(f, nd) ==
  IF nd = <<>> THEN [fs |-> f, err |-> Nil]
  ELSE IF f.ndir = "absent"
       THEN IF f.readOnly
            THEN [fs |-> f, err |-> FileError("create", nd)]
            ELSE [fs |-> [f EXCEPT !.ndir = "dir"], err |-> Nil]
       ELSE [fs |-> f, err |-> Nil]

\* createTemplate that ensures the templates directory before it validates
createTemplateEnsureFirst(f, name) ==
  LET v        == validateFileName(name)
      e        == ensureTemplatesDirectory(f)
      file     == sanitizeFileName(name) \o YamlExt
      filename == TemplatePath(name)
  IN  IF e.err # Nil THEN e
      ELSE IF v # Nil THEN [fs |-> e.fs, err |-> v]
      ELSE IF e.fs.tdir # "dir" \/ ~CanWrite(e.fs, e.fs.tfiles, file)
           THEN [fs |-> e.fs, err |-> FileError("write", filename)]
      ELSE [fs |-> [e.fs EXCEPT !.tfiles = WithFile(@, file, defaultTemplateContent)],
            err |-> Nil]

\* createTemplate that keeps a file that is already there
createTemplateKeep(f, name) ==
  LET v        == validateFileName(name)
      e        == ensureTemplatesDirectory(f)
      file     == sanitizeFileName(name) \o YamlExt
      filename == TemplatePath(name)
  IN  IF v # Nil THEN [fs |-> f, err |-> v]
      ELSE IF e.err # Nil THEN e
      ELSE IF e.fs.tdir # "dir" \/ ~CanWrite(e.fs, e.fs.tfiles, file)
           THEN [fs |-> e.fs, err |-> FileError("write", filename)]
      ELSE IF file \in DOMAIN e.fs.tfiles THEN [fs |-> e.fs, err |-> Nil]
      ELSE [fs |-> [e.fs EXCEPT !.tfiles = WithFile(@, file, defaultTemplateContent)],
            err |-> Nil]

createTemplate(f, name) ==
  LET v        == validateFileName(name)
      e        == ensureTemplatesDirectory(f)
      file     == sanitizeFileName(name) \o YamlExt
      filename == TemplatePath(name)
  IN  IF v # Nil THEN [fs |-> f, err |-> v]
      ELSE IF e.err # Nil THEN e
      ELSE IF e.fs.tdir # "dir" \/ ~CanWrite(e.fs, e.fs.tfiles, file)
           THEN [fs |-> e.fs, err |-> FileError("write", filename)]
      ELSE [fs |-> [e.fs EXCEPT !.tfiles = WithFile(@, file, defaultTemplateContent)],
            err |-> Nil]

\* strings.TrimSuffix(s, suffix)
TrimSuffix(s, suffix) ==
  IF HasSuffix(s, suffix) THEN SubSeq(s, 1, Len(s) - Len(suffix)) ELSE s

\* listTemplates without the test that an entry is not a directory
listTemplatesWithDirs(f) ==
  LET e == ensureTemplatesDirectory(f)
  IN  IF e.err # Nil THEN [fs |-> e.fs, err |-> e.err, out |-> {}]
      ELSE IF e.fs.tdir # "dir"
           THEN [fs |-> e.fs, err |-> FileError("read", TemplatesDir), out |-> {}]
      ELSE [fs |-> e.fs, err |-> Nil,
            out |-> {TrimSuffix(n, YamlExt) :
                       n \in {m \in DOMAIN e.fs.tfiles : HasSuffix(m, YamlExt)}}]

\* listTemplates; out is the set of the names printed.  (The entries of a
\* directory have different names, so no name is printed twice; the order
\* of the lines, that of os.ReadDir, is not modelled.)
listTemplates(f) ==
  LET e == ensureTemplatesDirectory(f)
  IN  IF e.err # Nil THEN [fs |-> e.fs, err |-> e.err, out |-> {}]
      ELSE IF e.fs.tdir # "dir"
           THEN [fs |-> e.fs, err |-> FileError("read", TemplatesDir), out |-> {}]
      ELSE [fs |-> e.fs, err |-> Nil,
            out |-> {TrimSuffix(n, YamlExt) :
                       n \in {m \in DOMAIN e.fs.tfiles :
                                ~e.fs.tfiles[m].dir /\ HasSuffix(m, YamlExt)}}]

loadTemplate(f, templateName) ==
  LET e        == ensureTemplatesDirectory(f)
      file     == sanitizeFileName(templateName) \o YamlExt
      filename == TemplatePath(templateName)
      parsed   == Unmarshal(e.fs.tfiles[file].data)
  IN  IF e.err # Nil THEN e
      ELSE IF \/ e.fs.tdir # "dir"
              \/ file \notin DOMAIN e.fs.tfiles
              \/ e.fs.tfiles[file].dir
           THEN [fs |-> e.fs, err |-> FileError("read", filename)]
      ELSE IF ~parsed.ok
           THEN [fs |-> e.fs, err |-> FileError("parse", filename)]
      ELSE [fs |-> e.fs, err |-> Nil, template |-> parsed.template]

saveMarkdownFile(f, nd, name, content) ==
  LET file     == sanitizeFileName(name) \o MdExt
      filename == NotePath(nd, name)
  IN  IF ~CanWrite(f, f.nfiles, file)
      THEN [fs |-> f, err |-> FileError("write", filename)]
      ELSE [fs |-> [f EXCEPT !.nfiles = WithFile(@, file, content)], err |-> Nil]

\* createNote that takes the file name from the title even when a name is given
createNoteTitleStem(f, nd, title, name, templateName, tags, now) ==
  LET noteName == title
      v1 == validateFileName(noteName)
      v2 == validateTitle(title)
      n  == ensureNotesDirectory(f, nd)
      t  == loadTemplate(n.fs, templateName)
  IN  IF v1 # Nil THEN [fs |-> f, err |-> v1]
      ELSE IF v2 # Nil THEN [fs |-> f, err |-> v2]
      ELSE IF n.err # Nil THEN n
      ELSE IF t.err # Nil THEN [fs |-> t.fs, err |-> t.err]
      ELSE saveMarkdownFile(t.fs, nd, noteName,
                            generateContent(t.template, title, tags, now))

\* createNote that goes on with the empty Template that loadTemplate returns
\* with its error
createNoteIgnoreLoadError(f, nd, title, name, templateName, tags, now) ==
  LET noteName == IF name = <<>> THEN title ELSE name
      v1 == validateFileName(noteName)
      v2 == validateTitle(title)
      n  == ensureNotesDirectory(f, nd)
      t  == loadTemplate(n.fs, templateName)
      template == IF t.err # Nil THEN [Content |-> <<>>, Tags |-> <<>>]
                  ELSE t.template
  IN  IF v1 # Nil THEN [fs |-> f, err |-> v1]
      ELSE IF v2 # Nil THEN [fs |-> f, err |-> v2]
      ELSE IF n.err # Nil THEN n
      ELSE saveMarkdownFile(t.fs, nd, noteName,
                            generateContent(template, title, tags, now))

\* createNote; title, name, templateName and tags are the flags, name empty
\* when -n is not given
createNote(f, nd, title, name, templateName, tags, now) ==
  LET noteName == IF name = <<>> THEN title ELSE name
      v1 == validateFileName(noteName)
      v2 == validateTitle(title)
      n  == ensureNotesDirectory(f, nd)
      t  == loadTemplate(n.fs, templateName)
  IN  IF v1 # Nil THEN [fs |-> f, err |-> v1]
      ELSE IF v2 # Nil THEN [fs |-> f, err |-> v2]
      ELSE IF n.err # Nil THEN n
      ELSE IF t.err # Nil THEN [fs |-> t.fs, err |-> t.err]
      ELSE saveMarkdownFile(t.fs, nd, noteName,
                            generateContent(t.template, title, tags, now))

\* extractTags that takes the last line that begins with "Tags:"
extractTagsLast(content) ==
  LET lines == Split(content, "\n")
      tagged == {i \in DOMAIN lines : HasPrefix(lines[i], <<"T","a","g","s",":">>)}
      line  == lines[CHOOSE i \in tagged : \A j \in tagged : j <= i]
      tags  == Split(SubSeq(line, 6, Len(line)), ",")
  IN  IF tagged = {} THEN <<>>
      ELSE [i \in DOMAIN tags |-> TrimSpace(tags[i])]

extractTags(content) ==
  LET lines == Split(content, "\n")
      tagged == {i \in DOMAIN lines : HasPrefix(lines[i], <<"T","a","g","s",":">>)}
      line  == lines[CHOOSE i \in tagged : \A j \in tagged : i <= j]
      tags  == Split(SubSeq(line, 6, Len(line)), ",")
  IN  IF tagged = {} THEN <<>>
      ELSE [i \in DOMAIN tags |-> TrimSpace(tags[i])]

\* listNotes; out gives the tags printed for each file
listNotes(f, nd) ==
  LET n == ensureNotesDirectory(f, nd)
      md == {m \in DOMAIN n.fs.nfiles : ~n.fs.nfiles[m].dir /\ HasSuffix(m, MdExt)}
  IN  IF n.err # Nil THEN [fs |-> n.fs, err |-> n.err, out |-> EmptyDir]
      ELSE [fs |-> n.fs, err |-> Nil,
            out |-> [m \in md |-> extractTags(n.fs.nfiles[m].data)]]

(***************************************************************************)
(* Spec: the commands of md run one after another on a filesystem.  A      *)
(* command is main(): LoadConfig, then the command's handler.  last is the *)
(* command that ran last: its arguments, the filesystem it started from    *)
(* (pre), its error and what it printed.                                   *)
(***************************************************************************)
CustomYaml ==
  Text(<< <<"c","o","n","t","e","n","t",":"," ","|">>,
          <<" "," ","{","{","T","I","T","L","E","}","}"," ","[","{","{","T","A","G","S","}","}","]">> >>)

BadYaml == Text(<< <<"c","o","n","t","e","n","t",":"," ","[">> >>)

OldNote ==
  Text(<< <<"#"," ","O","l","d">>,
          <<"T","a","g","s",":"," ","f","o","o",","," ","b","a","r"," ",",","b","a","z">> >>)

HelloWorldMd == <<"h","e","l","l","o","_","w","o","r","l","d">> \o MdExt

\* the templates directories a run can start from: an empty one, and one
\* with a default.yaml of its own, a malformed bad.yaml, a directory sub.yaml
\* and a file that is no template
StartTemplates ==
  { EmptyDir,
    [n \in {DefaultYaml, <<"b","a","d">> \o YamlExt, <<"s","u","b">> \o YamlExt,
             <<"n","o","t","e","s",".","t","x","t">>} |->
       IF n = DefaultYaml THEN File(CustomYaml)
       ELSE IF n = <<"b","a","d">> \o YamlExt THEN File(BadYaml)
       ELSE IF n = <<"s","u","b">> \o YamlExt THEN SubDir
       ELSE File(<<"x">>)] }

StartNotes == {EmptyDir, WithFile(EmptyDir, HelloWorldMd, OldNote)}

NotesDirs == {<<>>, <<"n","o","t","e","s">>}

TemplateNames ==
  { <<"M","y"," ","T","e","m","p","l","a","t","e","!">>,
    <<"B","a","d">>,
    <<"!","!","!">>,
    <<>>,
    <<"a","/","b">>,
    Fill("a", MaxFileNameLen + 1) }

NoteTitles ==
  { <<"H","e","l","l","o"," ","W","o","r","l","d">>,
    <<" "," "," ">>,
    Fill("a", MaxTitleLen + 1) }

NoteNames == { <<>>, <<"N","o","t","e"," ","1">>, <<"a","/","b">> }

NoteTemplates ==
  { <<"d","e","f","a","u","l","t">>, <<"B","a","d">>, <<"m","i","s","s","i","n","g">> }

NoteTagLists == { <<>>, << <<"a">>, <<"b">> >> }

NoteClocks ==
  {[year |-> 2024, month |-> 10, day |-> 8, hour |-> 9, minute |-> 5, second |-> 0]}

\* the flags of md note.  A name or title that validation refuses, and a
\* template other than the default, are tried without -n and -g variety.
NoteArgs ==
  {a \in [title : NoteTitles, name : NoteNames, templateName : NoteTemplates,
          tags : NoteTagLists] :
     LET noteName == IF a.name = <<>> THEN a.title ELSE a.name
         valid    == validateFileName(noteName) = Nil /\ validateTitle(a.title) = Nil
     IN  /\ ~valid => a.templateName = <<"d","e","f","a","u","l","t">> /\ a.tags = <<>>
         /\ a.templateName # <<"d","e","f","a","u","l","t">> =>
               a.name = <<>> /\ a.tags = <<>>}

Init ==
  /\ arg = <<>>
  /\ res = [op |-> "none"]
  /\ notesDir \in NotesDirs
  /\ \E cc \in BOOLEAN, ch \in BOOLEAN, ro \in BOOLEAN,
        td \in {"absent", "dir", "file"}, tf \in StartTemplates,
        ndr \in {"absent", "dir"}, nf \in StartNotes :
       /\ ~(cc /\ ch)
       /\ td # "dir" => tf = EmptyDir
       /\ notesDir = <<>> => ndr = "absent"
       /\ notesDir # <<>> => nf = EmptyDir
       /\ fs = [cfgCwd |-> cc, cfgHome |-> ch, readOnly |-> ro,
                tdir |-> td, tfiles |-> tf, ndir |-> ndr, nfiles |-> nf]
  /\ last = NoCall

\* md template create <name>
TemplateCreate ==
  \E name \in TemplateNames :
    LET c == LoadConfig(fs)
        r == IF c.err # Nil THEN c ELSE createTemplate(c.fs, name)
    IN  /\ fs' = r.fs
        /\ last' = [cmd |-> "template create", name |-> name, pre |-> fs,
                    err |-> r.err]
        /\ UNCHANGED <<arg, res, notesDir>>

\* md template list
TemplateList ==
  LET c == LoadConfig(fs)
      r == IF c.err # Nil THEN [fs |-> c.fs, err |-> c.err, out |-> {}]
           ELSE listTemplates(c.fs)
  IN  /\ fs' = r.fs
      /\ last' = [cmd |-> "template list", pre |-> fs, err |-> r.err, out |-> r.out]
      /\ UNCHANGED <<arg, res, notesDir>>

\* md note -t <title> [-n <name>] [-m <template>] [-g <tags>]
Note ==
  \E a \in NoteArgs, now \in NoteClocks :
    LET c == LoadConfig(fs)
        r == IF c.err # Nil THEN c
             ELSE createNote(c.fs, notesDir, a.title, a.name, a.templateName,
                             a.tags, now)
    IN  /\ fs' = r.fs
        /\ last' = [cmd |-> "note", title |-> a.title, name |-> a.name,
                    templateName |-> a.templateName, tags |-> a.tags, now |-> now,
                    pre |-> fs, err |-> r.err]
        /\ UNCHANGED <<arg, res, notesDir>>

\* md list
ListNotes ==
  LET c == LoadConfig(fs)
      r == IF c.err # Nil THEN [fs |-> c.fs, err |-> c.err, out |-> EmptyDir]
           ELSE listNotes(c.fs, notesDir)
  IN  /\ fs' = r.fs
      /\ last' = [cmd |-> "list", pre |-> fs, err |-> r.err, out |-> r.out]
      /\ UNCHANGED <<arg, res, notesDir>>

Next ==
  \/ TemplateCreate
  \/ TemplateList
  \/ Note
  \/ ListNotes

Spec == Init /\ [][Next]_vars

(***************************************************************************)
(* SpecEnsure: ensureTemplatesDirectory called several times in            *)
(* succession on a filesystem.  res.pre is the filesystem before the first *)
(* call, res.first the one the first call left.                            *)
(***************************************************************************)
\* most calls of ensureTemplatesDirectory in succession
MaxCalls == 3

CallEnsureTemplatesDirectory ==
  LET e == ensureTemplatesDirectory(fs)
  IN  /\ fs' = e.fs
      /\ \/ /\ res.op = "none"
            /\ res' = [op |-> "ensureTemplatesDirectory", calls |-> 1, pre |-> fs,
                       first |-> e.fs, err |-> e.err]
         \/ /\ res.op = "ensureTemplatesDirectory"
            /\ res.calls < MaxCalls
            /\ res' = [res EXCEPT !.calls = @ + 1, !.err = e.err]
      /\ UNCHANGED <<arg, notesDir, last>>

NextEnsure == CallEnsureTemplatesDirectory

SpecEnsure == Init /\ [][NextEnsure]_vars

(***************************************************************************)
(* SpecTemplates: md template create and md template list run one after    *)
(* another.  res.tdir is what was at the templates directory's path at the *)
(* start, arg the names given to the creates that have succeeded, in       *)
(* order.                                                                  *)
(***************************************************************************)
\* most successful creates in one run
MaxCreates == 3

InitTemplates ==
  /\ arg = <<>>
  /\ notesDir = <<>>
  /\ \E cc \in BOOLEAN, ro \in BOOLEAN,
        td \in {"absent", "dir", "file"}, tf \in StartTemplates :
       /\ td # "dir" => tf = EmptyDir
       /\ fs = [cfgCwd |-> cc, cfgHome |-> FALSE, readOnly |-> ro,
                tdir |-> td, tfiles |-> tf, ndir |-> "absent", nfiles |-> EmptyDir]
  /\ res = [op |-> "start", tdir |-> fs.tdir]
  /\ last = NoCall

\* md template create <name>, the name kept in arg when the command succeeds
TemplateCreateLogged ==
  /\ Len(arg) < MaxCreates
  /\ \E name \in TemplateNames :
       LET c == LoadConfig(fs)
           r == IF c.err # Nil THEN c ELSE createTemplate(c.fs, name)
       IN  /\ fs' = r.fs
           /\ last' = [cmd |-> "template create", name |-> name, pre |-> fs,
                       err |-> r.err]
           /\ arg' = IF r.err = Nil THEN Append(arg, name) ELSE arg
           /\ UNCHANGED <<res, notesDir>>

NextTemplates ==
  \/ TemplateCreateLogged
  \/ TemplateList

SpecTemplates == InitTemplates /\ [][NextTemplates]_vars

(***************************************************************************)
(* SpecTags: extractTags applied to the text of a file, and to the content *)
(* that generateContent renders from the default template.  A text is      *)
(* given by its lines: some lines that do not begin with "Tags:", then a   *)
(* line "Tags:" followed by parts put together with commas, then more      *)
(* lines; without parts the text has no line that begins with "Tags:".     *)
(***************************************************************************)
\* most lines of a text before its "Tags:" line
MaxLines == 2

\* lines that do not begin with "Tags:"
OtherLines ==
  { <<"#"," ","O","l","d">>, <<" ","T","a","g","s",":"," ","x">>, <<>> }

\* what stands between the commas of a "Tags:" line
TagParts ==
  { <<" ","f","o","o">>, <<" ","b","a","r"," ">>, <<"b","a","z">>, <<" ">> }

\* the lines after the first "Tags:" line
LaterLines ==
  { <<>>,
    << <<"T","a","g","s",":"," ","l","a","t","e","r",",","o","n","e">>, <<>> >>,
    << <<"#","#"," ","E","n","d">>, <<"T","a","g","s",":">> >> }

TagTexts ==
  {[kind |-> "text", before |-> b, parts |-> ps, after |-> a] :
     b \in UNION {[1..n -> OtherLines] : n \in 0..MaxLines},
     ps \in UNION {[1..n -> TagParts] : n \in 1..(MaxTags + 1)},
     a \in LaterLines}
  \cup
  {[kind |-> "text", before |-> b, parts |-> <<>>, after |-> <<>>] :
     b \in UNION {[1..n -> OtherLines] : n \in 0..MaxLines}}

\* the text of a file with these lines
TextOf(t) ==
  Join(t.before
         \o (IF t.parts = <<>> THEN <<>>
             ELSE << <<"T","a","g","s",":">> \o Join(t.parts, <<",">>) >>)
         \o t.after,
       <<"\n">>)

NoteTagChoices ==
  { <<"a">>, <<"b"," ","c">>, TitleToken, <<"x",",","y">> }

RoundTrips ==
  {[kind |-> "note", title |-> t, tags |-> g] :
     t \in { <<"M","y"," ","N","o","t","e">>, <<"T","a","g","s",":"," ","x">>,
             TagsToken },
     g \in UNION {[1..n -> NoteTagChoices] : n \in 0..MaxTags}}

InitTags ==
  /\ arg \in TagTexts \cup RoundTrips
  /\ res = [op |-> "none"]
  /\ fs = EmptyFS
  /\ notesDir = <<>>
  /\ last = NoCall

CallExtractTags ==
  /\ res.op = "none"
  /\ arg.kind = "text"
  /\ res' = [op |-> "extractTags", content |-> TextOf(arg),
             out |-> extractTags(TextOf(arg))]
  /\ UNCHANGED <<arg, fs, notesDir, last>>

\* createNote's generateContent on the default template, then listNotes'
\* extractTags on what was written
CallRenderThenExtract ==
  /\ res.op = "none"
  /\ arg.kind = "note"
  /\ \E now \in NoteClocks :
       LET content == generateContent(DefaultTemplate, arg.title, arg.tags, now)
       IN  res' = [op |-> "generateContent, extractTags", content |-> content,
                   out |-> extractTags(content)]
  /\ UNCHANGED <<arg, fs, notesDir, last>>

NextTags ==
  \/ CallExtractTags
  \/ CallRenderThenExtract

SpecTags == InitTags /\ [][NextTags]_vars

(***************************************************************************)
(* SpecPaths: the paths that the commands put together from the name,      *)
(* title and template name they are given.                                 *)
(***************************************************************************)
PathAlphabet == {"a", "B", " ", "-", ".", "/", "\\"}

\* names that climb out of a directory or step into another
TraversalNames ==
  { <<".",".","/","x">>,
    <<".",".","/",".",".","/","e","t","c","/","p","a","s","s","w","d">>,
    <<".",".","\\","x">>,
    <<"a","/",".",".","/",".",".","/","b">>,
    <<"s","u","b","/","x",".","y","a","m","l">> }

PathNames ==
  UNION {[1..n -> PathAlphabet] : n \in 0..MaxLen} \cup TraversalNames

InitPaths ==
  /\ arg \in PathNames
  /\ res = [op |-> "none"]
  /\ fs = EmptyFS
  /\ notesDir \in NotesDirs
  /\ last = NoCall

\* the path of createTemplate's os.WriteFile and of loadTemplate's
\* os.ReadFile
CallTemplatePath ==
  /\ res.op = "none"
  /\ res' = [op |-> "TemplatePath", out |-> TemplatePath(arg)]
  /\ UNCHANGED <<arg, fs, notesDir, last>>

\* the path of saveMarkdownFile's os.WriteFile
CallNotePath ==
  /\ res.op = "none"
  /\ res' = [op |-> "NotePath", out |-> NotePath(notesDir, arg)]
  /\ UNCHANGED <<arg, fs, notesDir, last>>

NextPaths ==
  \/ CallTemplatePath
  \/ CallNotePath

SpecPaths == InitPaths /\ [][NextPaths]_vars

(***************************************************************************)
(* Properties of the commands (under Spec, SpecEnsure and SpecTemplates).  *)
(***************************************************************************)
\* the name a note is filed under
NoteNameOf(l) == IF l.name = <<>> THEN l.title ELSE l.name

\* the last command was given a name or title that validation refuses
InvalidInput ==
  \/ last.cmd = "template create" /\ validateFileName(last.name) # Nil
  \/ /\ last.cmd = "note"
     /\ \/ validateFileName(NoteNameOf(last)) # Nil
        \/ validateTitle(last.title) # Nil

\* C5 as stated: template create or note create given an invalid name or
\* title ends with a ValidationError and leaves the filesystem exactly as
\* it was before the invocation started.
C5_Original ==
  InvalidInput => last.err.type = "ValidationError" /\ fs = last.pre

\* C5 amended: template create or note create given an invalid name or
\* title ends with a ValidationError whenever the configuration load at
\* startup succeeds, and no template, note or directory is created or
\* changed; the one change there can be is .md_config.yaml, which the
\* configuration load writes to the current directory when there is no
\* configuration file (and fails to when the directory cannot be written).
C5_ValidationBeforeFiles ==
  InvalidInput =>
    LET noConfig == ~last.pre.cfgCwd /\ ~last.pre.cfgHome
    IN  /\ noConfig /\ last.pre.readOnly =>
              last.err.type = "ConfigError" /\ fs = last.pre
        /\ ~(noConfig /\ last.pre.readOnly) =>
              /\ last.err.type = "ValidationError"
              /\ fs = [last.pre EXCEPT !.cfgCwd = @ \/ noConfig]

\* a note with a title of white space only was refused where there was no
\* configuration file and neither directory: only the configuration file
\* has been written
C5_Witness ==
  /\ last.cmd = "note"
  /\ last.title = <<" ", " ", " ">>
  /\ last.err = ValidationError("title", "cannot be only whitespace")
  /\ notesDir # <<>>
  /\ ~last.pre.cfgCwd /\ fs.cfgCwd
  /\ fs.tdir = "absent" /\ fs.ndir = "absent"
  /\ fs.nfiles = EmptyDir

\* C8: a successful template create of a name that validation accepts
\* leaves <templatesDir>/<sanitized name>.yaml with the default template
\* content, whether or not the file was there before, and leaves every
\* other file that was in the templates directory as it was (when the
\* directory was absent it is first created with default.yaml); the name
\* "My Template!" gives my_template.yaml.
C8_TemplateCreate ==
  last.cmd = "template create" /\ last.err = Nil =>
    LET file == sanitizeFileName(last.name) \o <<".","y","a","m","l">>
        seed == IF last.pre.tdir = "absent"
                THEN {<<"d","e","f","a","u","l","t",".","y","a","m","l">>} ELSE {}
    IN  /\ validateFileName(last.name) = Nil
        /\ fs.tdir = "dir"
        /\ DOMAIN fs.tfiles = DOMAIN last.pre.tfiles \cup seed \cup {file}
        /\ fs.tfiles[file] = File(defaultTemplateContent)
        /\ \A n \in DOMAIN last.pre.tfiles \ {file} :
              fs.tfiles[n] = last.pre.tfiles[n]
        /\ \A n \in seed : fs.tfiles[n] = File(defaultTemplateContent)
        /\ fs.nfiles = last.pre.nfiles /\ fs.ndir = last.pre.ndir
        /\ last.name = <<"M","y"," ","T","e","m","p","l","a","t","e","!">> =>
              file = <<"m","y","_","t","e","m","p","l","a","t","e",".","y","a","m","l">>

\* template create "Bad" has overwritten the malformed bad.yaml that was
\* there, next to a default.yaml of other content that it left alone
C8_Witness ==
  /\ last.cmd = "template create" /\ last.err = Nil
  /\ last.name = <<"B","a","d">>
  /\ <<"b","a","d",".","y","a","m","l">> \in DOMAIN last.pre.tfiles
  /\ last.pre.tfiles[<<"b","a","d",".","y","a","m","l">>] = File(BadYaml)
  /\ fs.tfiles[<<"b","a","d",".","y","a","m","l">>] = File(defaultTemplateContent)
  /\ fs.tfiles[DefaultYaml] = File(CustomYaml)

\* the file a successful note create writes, and the files the templates
\* directory holds when the template is loaded
NoteFile == sanitizeFileName(NoteNameOf(last)) \o <<".","m","d">>

TemplatesAtLoad ==
  IF last.pre.tdir = "absent"
  THEN WithFile(EmptyDir, <<"d","e","f","a","u","l","t",".","y","a","m","l">>,
                defaultTemplateContent)
  ELSE last.pre.tfiles

\* C9 as stated: a successful note create writes exactly one file, the
\* note: no other file is written.
C9_Original ==
  last.cmd = "note" /\ last.err = Nil =>
    /\ NoteFile \in DOMAIN fs.nfiles
    /\ \A n \in DOMAIN last.pre.nfiles \ {NoteFile} :
          n \in DOMAIN fs.nfiles /\ fs.nfiles[n] = last.pre.nfiles[n]
    /\ DOMAIN fs.nfiles = DOMAIN last.pre.nfiles \cup {NoteFile}
    /\ fs.tfiles = last.pre.tfiles
    /\ fs.cfgCwd = last.pre.cfgCwd

\* C9 amended: a successful note create with title T, optional name N and
\* tags G writes exactly one note file, <notesDir or current
\* directory>/<stem>.md, where stem is sanitizeFileName(N) if N is given and
\* sanitizeFileName(T) otherwise, whose content is the loaded template
\* rendered with T and G, overwriting a file of that name; the other notes
\* and templates are left as they were.  Besides the note it writes
\* .md_config.yaml when there is no configuration file, and default.yaml
\* into the templates directory it creates when that directory is absent.
\* Title "Hello World" with no name and the default template content gives
\* hello_world.md, whose first line is "# Hello World".
C9_NoteCreate ==
  last.cmd = "note" /\ last.err = Nil =>
    LET stem == IF last.name # <<>> THEN sanitizeFileName(last.name)
                ELSE sanitizeFileName(last.title)
        file == stem \o <<".","m","d">>
        tfile == sanitizeFileName(last.templateName) \o <<".","y","a","m","l">>
        loaded == Unmarshal(TemplatesAtLoad[tfile].data)
    IN  /\ tfile \in DOMAIN TemplatesAtLoad /\ loaded.ok
        /\ fs.nfiles = WithFile(last.pre.nfiles, file,
                                generateContent(loaded.template, last.title,
                                                last.tags, last.now))
        /\ fs.tfiles = TemplatesAtLoad
        /\ fs.tdir = "dir"
        /\ notesDir # <<>> => fs.ndir = "dir"
        /\ fs.cfgCwd = (last.pre.cfgCwd \/ ~last.pre.cfgHome)
        /\ ( /\ last.title = <<"H","e","l","l","o"," ","W","o","r","l","d">>
             /\ last.name = <<>>
             /\ TemplatesAtLoad[tfile].data = defaultTemplateContent )
           => /\ file = <<"h","e","l","l","o","_","w","o","r","l","d",".","m","d">>
              /\ HasPrefix(fs.nfiles[file].data,
                           <<"#"," ","H","e","l","l","o"," ","W","o","r","l","d","\n">>)

\* note "Hello World" without a name has been written over the
\* hello_world.md that was there, where the templates directory was absent
C9_Witness ==
  /\ last.cmd = "note" /\ last.err = Nil
  /\ last.title = <<"H","e","l","l","o"," ","W","o","r","l","d">>
  /\ last.name = <<>>
  /\ last.tags = << <<"a">>, <<"b">> >>
  /\ last.pre.tdir = "absent"
  /\ HelloWorldMd \in DOMAIN last.pre.nfiles
  /\ last.pre.nfiles[HelloWorldMd] = File(OldNote)
  /\ HasPrefix(fs.nfiles[HelloWorldMd].data,
               <<"#"," ","H","e","l","l","o"," ","W","o","r","l","d","\n">>)
  /\ Contains(fs.nfiles[HelloWorldMd].data,
              <<"T","a","g","s",":"," ","a",","," ","b","\n">>)
  /\ fs.tfiles[DefaultYaml] = File(defaultTemplateContent)

\* C10: ensureTemplatesDirectory creates an absent templates directory and
\* seeds it with default.yaml of the default template content; when the
\* directory is there it changes nothing; so any number of calls in
\* succession leave what the first call left.
C10_EnsureIdempotent ==
  res.op = "ensureTemplatesDirectory" =>
    /\ fs = res.first
    /\ res.pre.tdir # "absent" => fs = res.pre /\ res.err = Nil
    /\ res.pre.tdir = "absent" /\ ~res.pre.readOnly =>
          /\ res.err = Nil
          /\ fs = [res.pre EXCEPT
                     !.tdir = "dir",
                     !.tfiles = WithFile(EmptyDir,
                                         <<"d","e","f","a","u","l","t",".","y","a","m","l">>,
                                         defaultTemplateContent)]
    /\ res.pre.tdir = "absent" /\ res.pre.readOnly =>
          fs = res.pre /\ res.err.type = "FileError"

\* the directory was absent, was created and seeded by the first call, and
\* two more calls have been made
C10_Witness ==
  /\ res.op = "ensureTemplatesDirectory"
  /\ res.calls = 3
  /\ res.pre.tdir = "absent"
  /\ fs.tdir = "dir"
  /\ fs.tfiles[DefaultYaml] = File(defaultTemplateContent)
  /\ fs = res.first

\* C11: listing templates also creates default.yaml if it is not in the
\* templates directory: after a successful template list default.yaml is in
\* the templates directory, whatever the directory held before, also when
\* it was there without a default.yaml.
C11_ListSeedsDefault ==
  last.cmd = "template list" /\ last.err = Nil =>
    /\ fs.tdir = "dir"
    /\ <<"d","e","f","a","u","l","t",".","y","a","m","l">> \in DOMAIN fs.tfiles
    /\ ~fs.tfiles[<<"d","e","f","a","u","l","t",".","y","a","m","l">>].dir

\* C12: a successful template list reports exactly the names, without the
\* .yaml extension, of the entries of the templates directory that are not
\* directories and whose name ends in .yaml; on a directory it has just
\* bootstrapped it reports exactly "default"; and after successful template
\* creates that started from an absent directory it reports exactly
\* "default" and the sanitized form of each created name.
C12_TemplateList ==
  last.cmd = "template list" /\ last.err = Nil =>
    /\ \A s \in last.out :
          /\ (s \o <<".","y","a","m","l">>) \in DOMAIN fs.tfiles
          /\ ~fs.tfiles[s \o <<".","y","a","m","l">>].dir
    /\ \A m \in DOMAIN fs.tfiles :
          ( /\ ~fs.tfiles[m].dir
            /\ Len(m) >= 5
            /\ SubSeq(m, Len(m) - 4, Len(m)) = <<".","y","a","m","l">> )
          => SubSeq(m, 1, Len(m) - 5) \in last.out
    /\ last.pre.tdir = "absent" => last.out = {<<"d","e","f","a","u","l","t">>}
    /\ res.tdir = "absent" =>
          last.out = {<<"d","e","f","a","u","l","t">>}
                       \cup {sanitizeFileName(arg[i]) : i \in DOMAIN arg}

\* the directory was absent at the start, "My Template!" and "Bad" have
\* been created, and the list reports them with "default"
C12_Witness ==
  /\ last.cmd = "template list" /\ last.err = Nil
  /\ res.tdir = "absent"
  /\ arg = << <<"M","y"," ","T","e","m","p","l","a","t","e","!">>, <<"B","a","d">> >>
  /\ last.out = { <<"d","e","f","a","u","l","t">>,
                  <<"m","y","_","t","e","m","p","l","a","t","e">>,
                  <<"b","a","d">> }

\* C14: a failure at any stage of note creation aborts the stages after
\* it: the note file is written only after validation, the notes-directory
\* ensure and the template load have all succeeded; when the template file
\* is missing the command fails with a read FileError, when it is
\* malformed with a parse FileError, and whenever the command fails no note
\* file is created or modified.
C14_NoteAborts ==
  last.cmd = "note" =>
    LET pre      == last.pre
        configOk == pre.cfgCwd \/ pre.cfgHome \/ ~pre.readOnly
        valid    == /\ validateFileName(NoteNameOf(last)) = Nil
                    /\ validateTitle(last.title) = Nil
        notesOk  == notesDir = <<>> \/ pre.ndir = "dir" \/ ~pre.readOnly
        tdirOk   == pre.tdir # "absent" \/ ~pre.readOnly
        tfile    == sanitizeFileName(last.templateName) \o <<".","y","a","m","l">>
        path     == <<"t","e","m","p","l","a","t","e","s","/">> \o tfile
        missing  == \/ pre.tdir = "file"
                    \/ tfile \notin DOMAIN TemplatesAtLoad
                    \/ TemplatesAtLoad[tfile].dir
        malformed == ~missing /\ ~Unmarshal(TemplatesAtLoad[tfile].data).ok
        staged   == configOk /\ valid /\ notesOk /\ tdirOk
    IN  /\ last.err # Nil => fs.nfiles = pre.nfiles
        /\ fs.nfiles # pre.nfiles => staged /\ ~missing /\ ~malformed
        /\ last.err = Nil => staged /\ ~missing /\ ~malformed
        /\ staged /\ missing => last.err = FileError("read", path)
        /\ staged /\ malformed => last.err = FileError("parse", path)

\* a note on the malformed template bad.yaml has failed with the parse
\* error, and the note hello_world.md that was there is as it was
C14_Witness ==
  /\ last.cmd = "note"
  /\ last.title = <<"H","e","l","l","o"," ","W","o","r","l","d">>
  /\ last.templateName = <<"B","a","d">>
  /\ <<"b","a","d",".","y","a","m","l">> \in DOMAIN last.pre.tfiles
  /\ last.pre.tfiles[<<"b","a","d",".","y","a","m","l">>] = File(BadYaml)
  /\ last.err = FileError("parse", <<"t","e","m","p","l","a","t","e","s","/",
                                    "b","a","d",".","y","a","m","l">>)
  /\ HelloWorldMd \in DOMAIN last.pre.nfiles
  /\ fs.nfiles = WithFile(EmptyDir, HelloWorldMd, OldNote)

\* C17: every name that validateFileName accepts sanitizes to a stem that
\* is not empty, so template create and note create never write a file
\* whose name is only the extension, .yaml or .md.
C17_NonEmptyStem ==
  /\ last.cmd = "template create" /\ validateFileName(last.name) = Nil =>
        sanitizeFileName(last.name) # <<>>
  /\ last.cmd = "note" /\ validateFileName(NoteNameOf(last)) = Nil =>
        sanitizeFileName(NoteNameOf(last)) # <<>>
  /\ <<".","y","a","m","l">> \notin DOMAIN fs.tfiles
  /\ <<".","m","d">> \notin DOMAIN fs.nfiles

(***************************************************************************)
(* Properties of extractTags (under SpecTags).                             *)
(***************************************************************************)
\* C13: for the first line of the text that begins with "Tags:", extractTags
\* returns the rest of that line split at the commas, each piece with the
\* white space around it removed, in order; later "Tags:" lines are
\* ignored; a text without such a line gives the empty sequence.  The line
\* "Tags: foo, bar ,baz" gives foo, bar, baz.
C13_ExtractTags ==
  res.op = "extractTags" =>
    /\ \A i \in DOMAIN arg.before :
          ~HasPrefix(arg.before[i], <<"T","a","g","s",":">>)
    /\ arg.parts = <<>> => res.out = <<>>
    /\ arg.parts # <<>> =>
          /\ Len(res.out) = Len(arg.parts)
          /\ \A i \in DOMAIN arg.parts :
                /\ arg.parts[i] = <<" ","f","o","o">> => res.out[i] = <<"f","o","o">>
                /\ arg.parts[i] = <<" ","b","a","r"," ">> => res.out[i] = <<"b","a","r">>
                /\ arg.parts[i] = <<"b","a","z">> => res.out[i] = <<"b","a","z">>
                /\ arg.parts[i] = <<" ">> => res.out[i] = <<>>
    /\ arg.parts = << <<" ","f","o","o">>, <<" ","b","a","r"," ">>, <<"b","a","z">> >> =>
          res.out = << <<"f","o","o">>, <<"b","a","r">>, <<"b","a","z">> >>

\* the text has a line " Tags: x" that does not begin with "Tags:", then
\* "Tags: foo, bar ,baz", then a later "Tags:" line
C13_Witness ==
  /\ res.op = "extractTags"
  /\ arg.before = << <<"#"," ","O","l","d">>, <<" ","T","a","g","s",":"," ","x">> >>
  /\ arg.after = << <<"T","a","g","s",":"," ","l","a","t","e","r",",","o","n","e">>, <<>> >>
  /\ Contains(res.content,
              <<"\n","T","a","g","s",":"," ","f","o","o",","," ","b","a","r"," ",",","b","a","z","\n">>)
  /\ res.out = << <<"f","o","o">>, <<"b","a","r">>, <<"b","a","z">> >>

\* C16: for every tag list G, the empty list too, whose tags are not
\* empty, have no comma and no line feed and no white space around them,
\* and for every title of one line, extractTags applied to the content that
\* generateContent renders from the default template with tags G returns
\* exactly G.
C16_TagRoundTrip ==
  ( /\ res.op = "generateContent, extractTags"
    /\ "\n" \notin Range(arg.title)
    /\ \A i \in DOMAIN arg.tags :
          /\ arg.tags[i] # <<>>
          /\ Range(arg.tags[i]) \cap {",", "\n"} = {}
          /\ arg.tags[i][1] \notin SpaceChars
          /\ arg.tags[i][Len(arg.tags[i])] \notin SpaceChars )
  => res.out = arg.tags

(***************************************************************************)
(* Properties of the paths (under SpecPaths).                              *)
(***************************************************************************)
\* s is dir, a separator, a stem without separator and without dot, and ext
ChildOf(s, dir, ext) ==
  LET prefix == IF dir = <<>> THEN <<>> ELSE dir \o <<"/">>
      stem   == SubSeq(s, Len(prefix) + 1, Len(s) - Len(ext))
  IN  /\ Len(s) >= Len(prefix) + Len(ext)
      /\ SubSeq(s, 1, Len(prefix)) = prefix
      /\ SubSeq(s, Len(s) - Len(ext) + 1, Len(s)) = ext
      /\ \A i \in DOMAIN stem : stem[i] \notin {"/", "\\", "."}

\* C15: whatever the name, title or template name (also one with "/", "\"
\* or ".."), the file that template create or note create writes and the
\* file that template load reads is a direct child of the templates
\* directory, or of the notes directory (the current directory when none is
\* set): its path is the directory, a stem with no path separator and no
\* dot, and the extension.
C15_PathContained ==
  /\ res.op = "TemplatePath" =>
        ChildOf(res.out, <<"t","e","m","p","l","a","t","e","s">>,
                <<".","y","a","m","l">>)
  /\ res.op = "NotePath" => ChildOf(res.out, notesDir, <<".","m","d">>)

\* the template name ../../etc/passwd gives templates/etcpasswd.yaml
C15_Witness ==
  /\ res.op = "TemplatePath"
  /\ arg = <<".",".","/",".",".","/","e","t","c","/","p","a","s","s","w","d">>
  /\ res.out = <<"t","e","m","p","l","a","t","e","s","/",
                 "e","t","c","p","a","s","s","w","d",".","y","a","m","l">>

====
